---- MODULE Spec2Model ----
(***************************************************************************)
(* A model of the QuickPID controller (src/src/QuickPID.cpp, QuickPID.h). *)
(*                                                                         *)
(* float values are modelled as exact rationals in lowest terms (records   *)
(* [n, d] with d > 0), so that every product, quotient and comparison of   *)
(* the control law is computed as the code computes it, without rounding.  *)
(* uint32_t values (sampleTimeUs, lastTime, the clock) are represented by  *)
(* their two's-complement reading: an integer r stands for r mod 2^32.     *)
(* Sums and differences of representatives are then the code's wrapping    *)
(* sums and differences, and only the order (>=, > 0) needs the unsigned   *)
(* reading, which GE32 and NonZero32 give.                                 *)
(*                                                                         *)
(* myInput, myOutput and mySetpoint hold the contents of the caller's      *)
(* cells the three pointers of the class point to.                         *)
(***************************************************************************)
EXTENDS Integers, Sequences, FiniteSets, TLC

VARIABLES
  myInput, myOutput, mySetpoint,           \* contents of the linked cells
  mode, action, pmode, dmode, iawmode,     \* discrete configuration
  getMicros,                               \* _getMicros: "NULL" or "clock"
  dispKp, dispKi, dispKd,                  \* raw gains
  kp, ki, kd,                              \* scaled gains
  pTerm, iTerm, dTerm,                     \* last computed terms
  sampleTimeUs, lastTime,                  \* uint32_t
  outputSum, outMin, outMax,
  error, lastError, lastInput,
  micros,                                  \* what the clock returns now
  op,                                      \* the call made last
  ret,                                     \* what it returned: "true" or "false"
                                           \* from Compute; a void call leaves
                                           \* "void", "ignored" when its guard
                                           \* stored nothing, "initialized" when
                                           \* SetMode ran Initialize
  passed,                                  \* the clock argument of the last
                                           \* SetMode call
  computes,                                \* successful Compute calls so far
  awApplied                                \* whether the last successful Compute
                                           \* made the assignment of line 102

vars == << myInput, myOutput, mySetpoint, mode, action, pmode, dmode, iawmode,
           getMicros, dispKp, dispKi, dispKd, kp, ki, kd, pTerm, iTerm, dTerm,
           sampleTimeUs, lastTime, outputSum, outMin, outMax, error, lastError,
           lastInput, micros, op, ret, passed, computes,
                  awApplied >>

(***************************************************************************)
(* Rational arithmetic for the float type.                                 *)
(***************************************************************************)
Abs(x) == IF x < 0 THEN -x ELSE x

RECURSIVE Gcd(_, _)
Gcd(a, b) == IF b = 0 THEN a ELSE Gcd(b, a % b)

Rat(n, d) ==
  LET s == IF d < 0 THEN -1 ELSE 1
      g == Gcd(Abs(n), Abs(d))
  IN  IF g = 0 THEN [n |-> 0, d |-> 0]
      ELSE [n |-> (s * n) \div g, d |-> (s * d) \div g]

F(i) == [n |-> i, d |-> 1]

RAdd(x, y) == Rat(x.n * y.d + y.n * x.d, x.d * y.d)
RSub(x, y) == Rat(x.n * y.d - y.n * x.d, x.d * y.d)
RMul(x, y) == Rat(x.n * y.n, x.d * y.d)
RDiv(x, y) == Rat(x.n * y.d, x.d * y.n)
RNeg(x) == [n |-> -x.n, d |-> x.d]
RLt(x, y) == x.n * y.d < y.n * x.d
RLe(x, y) == x.n * y.d <= y.n * x.d
RNonZero(x) == x.n # 0

Half == Rat(1, 2)

MIN(a, b) == IF RLt(a, b) THEN a ELSE b
MAX(a, b) == IF RLt(a, b) THEN b ELSE a
CONSTRAIN(x, a, b) == MIN(MAX(x, a), b)

(***************************************************************************)
(* uint32_t order on two's-complement representatives.                     *)
(***************************************************************************)
GE32(a, b) ==
  IF (a < 0) = (b < 0) THEN a >= b ELSE a < 0

NonZero32(a) == a # 0

(***************************************************************************)
(* Enumerations (QuickPID.h, the second class declaration).                *)
(***************************************************************************)
Control == {"manual", "automatic", "timer"}
Action == {"direct", "reverse"}
pMode == {"pOnError", "pOnMeas", "pOnErrorMeas"}
dMode == {"dOnError", "dOnMeas"}
iAwMode == {"iAwCondition", "iAwClamp", "iAwOff"}
ClockArg == {"NULL", "clock"}

(***************************************************************************)
(* Bounds and the values the calls draw their arguments from.              *)
(***************************************************************************)
MaxComputes == 2
MaxLawComputes == 1
MaxRangeComputes == 1

DefaultSampleTimeUs == 100000

\* <<Kp, Ki, Kd>> arguments of the constructor and of SetTunings
GainArgs ==
  { <<F(2), F(5), F(1)>>, <<F(0), F(0), F(0)>>, <<F(1), F(0), F(2)>>,
    <<F(-1), F(5), F(1)>>, <<F(2), F(-5), F(1)>>, <<F(2), F(5), F(-1)>> }

\* the gains the life-cycle runs are constructed with
LifeGains == { <<F(2), F(0), F(0)>> }

\* the gains the control-law runs are constructed with
LawGains == { <<F(2), F(5), F(1)>>, <<F(-1), F(5), F(1)>> }

\* the <<Min, Max>> the control-law runs pass to SetOutputLimits
LawLimits == { <<F(0), F(255)>>, <<F(-20), F(-10)>>, <<F(5), F(5)>> }

\* the <<Kp, Ki, Kd, pMode, dMode, iAwMode>> the output-range runs pass to
\* SetTunings
RangeTunings ==
  { <<F(2), F(5), F(1), "pOnError", "dOnMeas", "iAwClamp">>,
    <<F(1), F(0), F(2), "pOnErrorMeas", "dOnError", "iAwOff">>,
    <<F(2), F(-5), F(1), "pOnMeas", "dOnError", "iAwOff">> }

\* the <<pMode, dMode, iAwMode>> the life-cycle runs are constructed with
LifeModes ==
  { <<"pOnError", "dOnMeas", "iAwCondition">>,
    <<"pOnErrorMeas", "dOnError", "iAwOff">> }

\* <<pMode, dMode, iAwMode>> arguments of the six-argument SetTunings
ModeArgs ==
  { <<"pOnError", "dOnMeas", "iAwCondition">>,
    <<"pOnMeas", "dOnError", "iAwClamp">>,
    <<"pOnErrorMeas", "dOnError", "iAwOff">> }

\* <<Min, Max>> arguments of SetOutputLimits
LimitArgs ==
  { <<F(0), F(255)>>, <<F(0), F(20)>>, <<F(-20), F(-10)>>,
    <<F(5), F(5)>>, <<F(9), F(3)>> }

SampleTimeArgs == {0, 50000, 100000, 200000}

\* the periods the life-cycle runs pass to SetSampleTimeUs
LifeSampleTimes == {0, 200000}

InputVals == {F(10), F(30)}
SetpointVals == {F(20)}
OutputVals == {F(10), F(300)}
ClockVals == {0, 100000}

\* A float field no code has assigned yet holds Indeterminate; a read of it
\* may give any value, here any of Indet.  A uint32_t that is read before it
\* is assigned may give any of IndetTime.
Indeterminate == [n |-> 0, d |-> 0]
Indet == {F(0), F(-40)}
IndetTime == {0, 7}
Read(x) == IF x = Indeterminate THEN Indet ELSE {x}

(***************************************************************************)
(* SetTunings (QuickPID.cpp 124-136)                                       *)
(***************************************************************************)
\* mutant: only Kp is tested
TuningsRejected_KpOnly(Kp, Ki, Kd) == RLt(Kp, F(0))

TuningsRejected(Kp, Ki, Kd) ==
  RLt(Kp, F(0)) \/ RLt(Ki, F(0)) \/ RLt(Kd, F(0))

SampleTimeSec(st) == Rat(st, 1000000)

ScaledKp(Kp) == Kp

\* mutant: ki is not scaled by the period
ScaledKi_NoScale(Ki, st) == Ki

\* mutant: kd is multiplied by the period instead of divided
ScaledKd_Times(Kd, st) == RMul(Kd, Rat(st, 1000000))

ScaledKi(Ki, st) == RMul(Ki, SampleTimeSec(st))
ScaledKd(Kd, st) == RDiv(Kd, SampleTimeSec(st))

(***************************************************************************)
(* The constructor (QuickPID.cpp 13-35): the state it leaves.  Fields it   *)
(* never assigns (outputSum, lastError, lastInput, error, the three terms, *)
(* lastTime without a clock, and kp, ki, kd when SetTunings rejects the    *)
(* gains) hold indeterminate values.                                       *)
(***************************************************************************)
QuickPID(Kp, Ki, Kd, pm, dm, aw, a, g) ==
  /\ mode = "manual"
  /\ getMicros = g
  /\ outMin = F(0)
  /\ outMax = F(255)
  /\ sampleTimeUs = DefaultSampleTimeUs
  /\ action = a
  /\ IF TuningsRejected(Kp, Ki, Kd)
     THEN /\ pmode = "pOnError" /\ dmode = "dOnMeas" /\ iawmode = "iAwCondition"
          /\ dispKp = F(0) /\ dispKi = F(0) /\ dispKd = F(0)
          /\ kp = Indeterminate /\ ki = Indeterminate /\ kd = Indeterminate
     ELSE /\ pmode = pm /\ dmode = dm /\ iawmode = aw
          /\ dispKp = Kp /\ dispKi = Ki /\ dispKd = Kd
          /\ kp = ScaledKp(Kp)
          /\ ki = ScaledKi(Ki, DefaultSampleTimeUs)
          /\ kd = ScaledKd(Kd, DefaultSampleTimeUs)
  /\ IF g # "NULL"
     THEN lastTime = micros - DefaultSampleTimeUs
     ELSE lastTime \in IndetTime
  /\ outputSum = Indeterminate
  /\ lastError = Indeterminate
  /\ lastInput = Indeterminate
  /\ error = Indeterminate
  /\ pTerm = Indeterminate /\ iTerm = Indeterminate /\ dTerm = Indeterminate
  /\ op = "QuickPID"
  /\ ret = "void"
  /\ passed = "NULL"
  /\ computes = 0
  /\ awApplied = FALSE

\* the caller's cells and the clock when the controller is constructed
Cells(ins, outs, sps) ==
  /\ myInput \in ins
  /\ myOutput \in outs
  /\ mySetpoint \in sps
  /\ micros = 0

SetTunings(Kp, Ki, Kd, pm, dm, aw) ==
  /\ IF TuningsRejected(Kp, Ki, Kd)
     THEN UNCHANGED << pmode, dmode, iawmode, dispKp, dispKi, dispKd, kp, ki, kd >>
     ELSE /\ pmode' = pm /\ dmode' = dm /\ iawmode' = aw
          /\ dispKp' = Kp /\ dispKi' = Ki /\ dispKd' = Kd
          /\ kp' = ScaledKp(Kp)
          /\ ki' = ScaledKi(Ki, sampleTimeUs)
          /\ kd' = ScaledKd(Kd, sampleTimeUs)
  /\ op' = "SetTunings"
  /\ ret' = IF TuningsRejected(Kp, Ki, Kd) THEN "ignored" ELSE "void"
  /\ UNCHANGED << myInput, myOutput, mySetpoint, mode, action, getMicros,
                  pTerm, iTerm, dTerm, sampleTimeUs, lastTime, outputSum,
                  outMin, outMax, error, lastError, lastInput, micros, passed, computes,
                  awApplied >>

\* QuickPID.cpp 141-143: the overload that reuses the stored modes
SetTunings3(Kp, Ki, Kd) == SetTunings(Kp, Ki, Kd, pmode, dmode, iawmode)

(***************************************************************************)
(* SetSampleTimeUs (QuickPID.cpp 148-155)                                  *)
(***************************************************************************)
\* mutant: a period of 0 is accepted
SampleTimeAccepted_Always(NewSampleTimeUs) == TRUE

SampleTimeAccepted(NewSampleTimeUs) == NonZero32(NewSampleTimeUs)

\* (float)NewSampleTimeUs / (float)sampleTimeUs
Ratio(NewSampleTimeUs, st) == Rat(NewSampleTimeUs, st)

\* a value computed from an indeterminate one is indeterminate
\* mutant: kd *= ratio
RescaledKd_Times(k, ratio) == IF k = Indeterminate THEN Indeterminate ELSE RMul(k, ratio)

RescaledKi(k, ratio) == IF k = Indeterminate THEN Indeterminate ELSE RMul(k, ratio)
RescaledKd(k, ratio) == IF k = Indeterminate THEN Indeterminate ELSE RDiv(k, ratio)

SetSampleTimeUs(NewSampleTimeUs) ==
  /\ IF SampleTimeAccepted(NewSampleTimeUs)
     THEN /\ ki' = RescaledKi(ki, Ratio(NewSampleTimeUs, sampleTimeUs))
          /\ kd' = RescaledKd(kd, Ratio(NewSampleTimeUs, sampleTimeUs))
          /\ sampleTimeUs' = NewSampleTimeUs
     ELSE UNCHANGED << ki, kd, sampleTimeUs >>
  /\ op' = "SetSampleTimeUs"
  /\ ret' = IF SampleTimeAccepted(NewSampleTimeUs) THEN "void" ELSE "ignored"
  /\ UNCHANGED << myInput, myOutput, mySetpoint, mode, action, pmode, dmode,
                  iawmode, getMicros, dispKp, dispKi, dispKd, kp, pTerm, iTerm,
                  dTerm, lastTime, outputSum, outMin, outMax, error, lastError,
                  lastInput, micros, passed, computes,
                  awApplied >>

(***************************************************************************)
(* SetOutputLimits (QuickPID.cpp 161-170)                                  *)
(***************************************************************************)
\* mutant: no limits are refused
LimitsRejected_Never(Min, Max) == FALSE

\* mutant: only Min > Max is refused
LimitsRejected_Strict(Min, Max) == RLt(Max, Min)

LimitsRejected(Min, Max) == ~RLt(Min, Max)

\* mutant: the new range is stored without the re-clamp
Clamped_Not(x, lo, hi) == x

Clamped(x, lo, hi) == IF x = Indeterminate THEN Indeterminate ELSE CONSTRAIN(x, lo, hi)

SetOutputLimits(Min, Max) ==
  /\ IF LimitsRejected(Min, Max)
     THEN UNCHANGED << outMin, outMax, myOutput, outputSum >>
     ELSE /\ outMin' = Min
          /\ outMax' = Max
          /\ IF mode # "manual"
             THEN /\ myOutput' = Clamped(myOutput, Min, Max)
                  /\ outputSum' = Clamped(outputSum, Min, Max)
             ELSE UNCHANGED << myOutput, outputSum >>
  /\ op' = "SetOutputLimits"
  /\ ret' = IF LimitsRejected(Min, Max) THEN "ignored" ELSE "void"
  /\ UNCHANGED << myInput, mySetpoint, mode, action, pmode, dmode, iawmode,
                  getMicros, dispKp, dispKi, dispKd, kp, ki, kd, pTerm, iTerm,
                  dTerm, sampleTimeUs, lastTime, error, lastError, lastInput,
                  micros, passed, computes,
                  awApplied >>

(***************************************************************************)
(* Initialize (QuickPID.cpp 192-196) and SetMode (QuickPID.cpp 177-186)    *)
(***************************************************************************)
\* mutant: the accumulator is not clamped
InitializedSum_NoClamp(out, lo, hi) == out

InitializedSum(out, lo, hi) == CONSTRAIN(out, lo, hi)
InitializedLastInput(in) == in

\* mutant: every call that sets an active mode initializes
Activates_AnyActive(old, new) == new # "manual"

Activates(old, new) == old = "manual" /\ new # "manual"

\* line 182 stores NULL whatever clock the caller passes
StoredClock(g) == "NULL"

SetMode(Mode, g) ==
  /\ IF Activates(mode, Mode)
     THEN /\ outputSum' = InitializedSum(myOutput, outMin, outMax)
          /\ lastInput' = InitializedLastInput(myInput)
     ELSE UNCHANGED << outputSum, lastInput >>
  /\ mode' = Mode
  /\ passed' = g
  /\ getMicros' = StoredClock(g)
  /\ IF getMicros' # "NULL"
     THEN lastTime' = micros - sampleTimeUs
     ELSE UNCHANGED lastTime
  /\ op' = "SetMode"
  /\ ret' = IF Activates(mode, Mode) THEN "initialized" ELSE "void"
  /\ UNCHANGED << myInput, myOutput, mySetpoint, action, pmode, dmode, iawmode,
                  dispKp, dispKi, dispKd, kp, ki, kd, pTerm, iTerm, dTerm,
                  sampleTimeUs, outMin, outMax, error, lastError, micros,
                  computes,
                  awApplied >>

(***************************************************************************)
(* The one-field setters (QuickPID.cpp 202-231)                            *)
(***************************************************************************)
SetControllerDirection(a) ==
  /\ action' = a
  /\ op' = "SetControllerDirection" /\ ret' = "void"
  /\ UNCHANGED << myInput, myOutput, mySetpoint, mode, pmode, dmode, iawmode,
                  getMicros, dispKp, dispKi, dispKd, kp, ki, kd, pTerm, iTerm,
                  dTerm, sampleTimeUs, lastTime, outputSum, outMin, outMax,
                  error, lastError, lastInput, micros, passed, computes,
                  awApplied >>

SetProportionalMode(pm) ==
  /\ pmode' = pm
  /\ op' = "SetProportionalMode" /\ ret' = "void"
  /\ UNCHANGED << myInput, myOutput, mySetpoint, mode, action, dmode, iawmode,
                  getMicros, dispKp, dispKi, dispKd, kp, ki, kd, pTerm, iTerm,
                  dTerm, sampleTimeUs, lastTime, outputSum, outMin, outMax,
                  error, lastError, lastInput, micros, passed, computes,
                  awApplied >>

SetDerivativeMode(dm) ==
  /\ dmode' = dm
  /\ op' = "SetDerivativeMode" /\ ret' = "void"
  /\ UNCHANGED << myInput, myOutput, mySetpoint, mode, action, pmode, iawmode,
                  getMicros, dispKp, dispKi, dispKd, kp, ki, kd, pTerm, iTerm,
                  dTerm, sampleTimeUs, lastTime, outputSum, outMin, outMax,
                  error, lastError, lastInput, micros, passed, computes,
                  awApplied >>

SetAntiWindupMode(aw) ==
  /\ iawmode' = aw
  /\ op' = "SetAntiWindupMode" /\ ret' = "void"
  /\ UNCHANGED << myInput, myOutput, mySetpoint, mode, action, pmode, dmode,
                  getMicros, dispKp, dispKi, dispKd, kp, ki, kd, pTerm, iTerm,
                  dTerm, sampleTimeUs, lastTime, outputSum, outMin, outMax,
                  error, lastError, lastInput, micros, passed, computes,
                  awApplied >>

(***************************************************************************)
(* Compute (QuickPID.cpp 65-117)                                           *)
(***************************************************************************)
ReadsClock(m, g) == m = "automatic" /\ g # "NULL"

\* mutants: the timer mode forgotten; the comparison reversed
GateOpen_TimeOnly(m, timeChange, st) == GE32(timeChange, st)
GateOpen_Reversed(m, timeChange, st) == m = "timer" \/ GE32(st, timeChange)

\* line 73
GateOpen(m, timeChange, st) == m = "timer" \/ GE32(timeChange, st)

\* mutant: every mode but automatic computes unconditionally
Proceeds_NotAutomatic(m, timeChange, st) == m # "automatic" \/ GE32(timeChange, st)

\* lines 68 and 73: whether this call computes a new output
Proceeds(m, timeChange, st) == m # "manual" /\ GateOpen(m, timeChange, st)

\* lines 76-77 and 79-80
DInputOf(in, lastIn, a) ==
  IF a = "reverse" THEN RNeg(RSub(in, lastIn)) ELSE RSub(in, lastIn)
ErrorOf(sp, in, a) ==
  IF a = "reverse" THEN RNeg(RSub(sp, in)) ELSE RSub(sp, in)

\* mutant: the change of the error is taken against zero
DErrorOf_FromZero(e, lastE) == e

\* line 81
DErrorOf(e, lastE) == RSub(e, lastE)

\* lines 83-90
PeTerm(k, e, pm) ==
  CASE pm = "pOnError" -> RMul(k, e)
    [] pm = "pOnMeas" -> F(0)
    [] OTHER -> RMul(RMul(k, e), Half)
PmTerm(k, dIn, pm) ==
  CASE pm = "pOnError" -> F(0)
    [] pm = "pOnMeas" -> RMul(k, dIn)
    [] OTHER -> RMul(RMul(k, dIn), Half)

\* lines 93-94
DTermOf(k, dErr, dIn, dm) ==
  IF dm = "dOnError" THEN RMul(k, dErr) ELSE RMul(RNeg(k), dIn)

\* lines 99-101
ITermOut(pe, pm, k, e) == RAdd(RSub(pe, pm), RMul(k, RAdd(RMul(k, e), e)))
AwTriggered(iOut, dErr, lo, hi) ==
  \/ RLt(hi, iOut) /\ RLt(F(0), dErr)
  \/ RLt(iOut, lo) /\ RLt(dErr, F(0))

\* lines 92 and 97-103
AwApplies(pe, pm, k, e, dErr, aw, lo, hi) ==
  /\ aw = "iAwCondition"
  /\ AwTriggered(ITermOut(pe, pm, k, e), dErr, lo, hi)
  /\ RNonZero(k)

\* mutant: ki * error is clamped, not the hypothetical output
ITermOf_ClampsITerm(pe, pm, k, e, dErr, aw, lo, hi) ==
  IF AwApplies(pe, pm, k, e, dErr, aw, lo, hi)
  THEN CONSTRAIN(RMul(k, e), RNeg(hi), hi)
  ELSE RMul(k, e)

\* mutant: the hypothetical output is assigned without the clamp
ITermOf_Unclamped(pe, pm, k, e, dErr, aw, lo, hi) ==
  IF AwApplies(pe, pm, k, e, dErr, aw, lo, hi)
  THEN ITermOut(pe, pm, k, e)
  ELSE RMul(k, e)

ITermOf(pe, pm, k, e, dErr, aw, lo, hi) ==
  IF AwApplies(pe, pm, k, e, dErr, aw, lo, hi)
  THEN CONSTRAIN(ITermOut(pe, pm, k, e), RNeg(hi), hi)
  ELSE RMul(k, e)

\* lines 106-108
NewOutputSum(sum, iT, pm, aw, lo, hi) ==
  IF aw = "iAwOff"
  THEN RSub(RAdd(sum, iT), pm)
  ELSE CONSTRAIN(RSub(RAdd(sum, iT), pm), lo, hi)

\* mutant: the output is not clamped
NewOutput_NoClamp(sum, pe, dT, lo, hi) == RAdd(RAdd(sum, pe), dT)

\* line 109
NewOutput(sum, pe, dT, lo, hi) == CONSTRAIN(RAdd(RAdd(sum, pe), dT), lo, hi)

\* line 113: now is assigned only when the clock was read (lines 69-70);
\* otherwise the store copies an uninitialized uint32_t, which may give any
\* value, the old lastTime included
NowValues(m, g) ==
  IF ReadsClock(m, g) THEN {micros} ELSE IndetTime \cup {lastTime}

TimeChange(m, g) == IF ReadsClock(m, g) THEN micros - lastTime ELSE 0

\* mutant: the error is computed before the gate is consulted
Skipped_ErrorFirst ==
  /\ ret' = "false"
  /\ error' = ErrorOf(mySetpoint, myInput, action)
  /\ UNCHANGED << pTerm, iTerm, dTerm, outputSum, myOutput, lastError,
                  lastInput, lastTime, computes, awApplied >>

\* lines 68 and 116: the call returns false
Skipped ==
  /\ ret' = "false"
  /\ UNCHANGED << error, pTerm, iTerm, dTerm, outputSum, myOutput, lastError,
                  lastInput, lastTime, computes, awApplied >>

Compute ==
  /\ computes < MaxComputes
  /\ op' = "Compute"
  /\ IF Proceeds(mode, TimeChange(mode, getMicros), sampleTimeUs)
     THEN \E vKp \in Read(kp), vKi \in Read(ki), vKd \in Read(kd),
             vLastError \in Read(lastError), vLastInput \in Read(lastInput),
             vSum \in Read(outputSum), now \in NowValues(mode, getMicros) :
          LET input == myInput
              dInput == DInputOf(input, vLastInput, action)
              err == ErrorOf(mySetpoint, input, action)
              dError == DErrorOf(err, vLastError)
              peTerm == PeTerm(vKp, err, pmode)
              pmTerm == PmTerm(vKp, dInput, pmode)
              iT == ITermOf(peTerm, pmTerm, vKi, err, dError, iawmode, outMin, outMax)
              dT == DTermOf(vKd, dError, dInput, dmode)
              sum == NewOutputSum(vSum, iT, pmTerm, iawmode, outMin, outMax)
          IN  /\ error' = err
              /\ pTerm' = RSub(peTerm, pmTerm)
              /\ iTerm' = iT
              /\ dTerm' = dT
              /\ outputSum' = sum
              /\ myOutput' = NewOutput(sum, peTerm, dT, outMin, outMax)
              /\ lastError' = err
              /\ lastInput' = input
              /\ lastTime' = now
              /\ ret' = "true"
              /\ computes' = computes + 1
              /\ awApplied' = AwApplies(peTerm, pmTerm, vKi, err, dError, iawmode,
                                        outMin, outMax)
     ELSE Skipped
  /\ UNCHANGED << myInput, mySetpoint, mode, action, pmode, dmode, iawmode,
                  getMicros, dispKp, dispKi, dispKd, kp, ki, kd, sampleTimeUs,
                  outMin, outMax, micros, passed >>

(***************************************************************************)
(* The caller: it owns the three cells and the clock runs on.              *)
(***************************************************************************)
WriteInput(v) ==
  /\ myInput' = v
  /\ op' = "caller" /\ ret' = "void"
  /\ UNCHANGED << myOutput, mySetpoint, mode, action, pmode, dmode, iawmode,
                  getMicros, dispKp, dispKi, dispKd, kp, ki, kd, pTerm, iTerm,
                  dTerm, sampleTimeUs, lastTime, outputSum, outMin, outMax,
                  error, lastError, lastInput, micros, passed, computes,
                  awApplied >>

WriteSetpoint(v) ==
  /\ mySetpoint' = v
  /\ op' = "caller" /\ ret' = "void"
  /\ UNCHANGED << myInput, myOutput, mode, action, pmode, dmode, iawmode,
                  getMicros, dispKp, dispKi, dispKd, kp, ki, kd, pTerm, iTerm,
                  dTerm, sampleTimeUs, lastTime, outputSum, outMin, outMax,
                  error, lastError, lastInput, micros, passed, computes,
                  awApplied >>

WriteOutput(v) ==
  /\ myOutput' = v
  /\ op' = "caller" /\ ret' = "void"
  /\ UNCHANGED << myInput, mySetpoint, mode, action, pmode, dmode, iawmode,
                  getMicros, dispKp, dispKi, dispKd, kp, ki, kd, pTerm, iTerm,
                  dTerm, sampleTimeUs, lastTime, outputSum, outMin, outMax,
                  error, lastError, lastInput, micros, passed, computes,
                  awApplied >>

Tick ==
  /\ \E t \in ClockVals : t > micros /\ micros' = t
  /\ op' = "caller" /\ ret' = "void"
  /\ UNCHANGED << myInput, myOutput, mySetpoint, mode, action, pmode, dmode,
                  iawmode, getMicros, dispKp, dispKi, dispKd, kp, ki, kd, pTerm,
                  iTerm, dTerm, sampleTimeUs, lastTime, outputSum, outMin,
                  outMax, error, lastError, lastInput, passed, computes,
                  awApplied >>

(***************************************************************************)
(* The life cycle: a controller constructed with or without a clock is     *)
(* activated, deactivated and switched between the modes while the caller  *)
(* writes its cells, the clock runs and Compute is called.                 *)
(***************************************************************************)
Init ==
  /\ Cells(InputVals, OutputVals, SetpointVals)
  /\ \E g \in LifeGains, m \in LifeModes, c \in ClockArg :
       QuickPID(g[1], g[2], g[3], m[1], m[2], m[3], "direct", c)

Next ==
  \/ Compute
  \/ \E m \in Control, g \in ClockArg : SetMode(m, g)
  \/ \E t \in LifeSampleTimes : SetSampleTimeUs(t)
  \/ \E v \in InputVals : WriteInput(v)
  \/ \E v \in SetpointVals : WriteSetpoint(v)
  \/ \E v \in OutputVals : mode = "manual" /\ WriteOutput(v)
  \/ Tick

Spec == Init /\ [][Next]_vars

(***************************************************************************)
(* C1: a Compute call made while the mode is manual returns false.         *)
(***************************************************************************)
C1_IdleComputeReturnsFalse ==
  (op = "Compute" /\ mode = "manual") => ret = "false"

\* Compute has just returned false to an idle controller that was given a
\* clock, a sample period after the time the constructor took
C1_Witness ==
  /\ op = "Compute" /\ mode = "manual" /\ ret = "false"
  /\ getMicros = "clock" /\ micros = 100000 /\ lastTime = -100000

\* the error of the current cells, for the action set
CellError ==
  IF action = "reverse" THEN RSub(myInput, mySetpoint) ELSE RSub(mySetpoint, myInput)

(***************************************************************************)
(* C2: a Compute call made while the mode is timer returns true and has    *)
(* done the whole update: error is that of the cells, lastError and        *)
(* lastInput are the current error and input, and the output cell holds    *)
(* the accumulator plus the proportional-on-error and derivative terms,    *)
(* within the limits.                                                      *)
(***************************************************************************)
C2_TimerComputeUpdates ==
  (op = "Compute" /\ mode = "timer")
  => /\ ret = "true"
     /\ error = CellError
     /\ lastError = error
     /\ lastInput = myInput
     /\ myOutput = CONSTRAIN(RAdd(RAdd(outputSum, PeTerm(kp, error, pmode)), dTerm),
                             outMin, outMax)

\* the second Compute in a row in timer mode, with the clock still at 0, a
\* period of 0.2 s and a changed input
C2_Witness ==
  /\ op = "Compute" /\ mode = "timer" /\ ret = "true"
  /\ computes = 2 /\ micros = 0 /\ sampleTimeUs = 200000
  /\ lastInput = F(30) /\ lastError = F(-10)

\* uint32_t now - lastTime >= sampleTimeUs
Elapsed == GE32(micros - lastTime, sampleTimeUs)

(***************************************************************************)
(* C3: when the last SetMode call entered automatic mode and passed a      *)
(* clock, a Compute call made when clock() - lastTime >= sampleTimeUs      *)
(* returns true.                                                           *)
(***************************************************************************)
C3_SuppliedClockGates ==
  [][(/\ mode = "automatic" /\ passed = "clock"
      /\ Elapsed
      /\ op' = "Compute")
     => ret' = "true"]_vars

(***************************************************************************)
(* C4: in automatic mode a Compute call returns true only if a clock is    *)
(* stored and clock() - lastTime >= sampleTimeUs; without a stored clock,  *)
(* or before the period has elapsed, it returns false.                     *)
(***************************************************************************)
C4_AutomaticGate ==
  [][(mode = "automatic" /\ op' = "Compute" /\ ret' = "true")
     => (getMicros # "NULL" /\ Elapsed)]_vars

\* Compute has just returned false in automatic mode although a sample
\* period has elapsed: no clock is stored
C4_Witness ==
  /\ op = "Compute" /\ mode = "automatic" /\ ret = "false"
  /\ getMicros = "NULL" /\ Elapsed

\* x saturated into [lo, hi]
ClampInto(x, lo, hi) == IF RLt(x, lo) THEN lo ELSE IF RLt(hi, x) THEN hi ELSE x

(***************************************************************************)
(* The control law: controllers constructed with every combination of the  *)
(* action and the proportional, derivative and anti-windup modes are       *)
(* given output limits, activated and computed, while the caller writes    *)
(* the input.                                                              *)
(***************************************************************************)
InitLaw ==
  /\ Cells({F(10)}, {F(10)}, {F(20)})
  /\ \E g \in LawGains, pm \in pMode, dm \in dMode, aw \in iAwMode, a \in Action :
       QuickPID(g[1], g[2], g[3], pm, dm, aw, a, "NULL")

NextLaw ==
  \/ computes < MaxLawComputes /\ Compute
  \/ \E m \in {"manual", "timer"} : SetMode(m, "NULL")
  \/ \E l \in LawLimits : SetOutputLimits(l[1], l[2])
  \/ \E v \in InputVals : WriteInput(v)

SpecLaw == InitLaw /\ [][NextLaw]_vars

(***************************************************************************)
(* C5: after a Compute call that returned true the output cell lies within *)
(* [outMin, outMax], for every action and every proportional, derivative   *)
(* and anti-windup mode.                                                   *)
(***************************************************************************)
C5_OutputWithinLimits ==
  (op = "Compute" /\ ret = "true") => (RLe(outMin, myOutput) /\ RLe(myOutput, outMax))

\* with anti-windup off the accumulator has left the range and the output
\* cell was saturated at outMax
C5_Witness ==
  /\ op = "Compute" /\ ret = "true"
  /\ iawmode = "iAwOff" /\ RLt(outMax, outputSum) /\ myOutput = outMax

(***************************************************************************)
(* C6: a SetMode call that takes the controller from manual to automatic   *)
(* or timer leaves outputSum equal to the output cell saturated into       *)
(* [outMin, outMax] and lastInput equal to the input cell.                 *)
(***************************************************************************)
C6_BumplessTransfer ==
  [][(mode = "manual" /\ op' = "SetMode" /\ mode' # "manual")
     => /\ outputSum' = ClampInto(myOutput, outMin, outMax)
        /\ lastInput' = myInput]_vars

\* activated into automatic mode with the output cell at 300, above the
\* range [0, 255], and the input cell at 30
C6_Witness ==
  /\ op = "SetMode" /\ ret = "initialized" /\ mode = "automatic"
  /\ myOutput = F(300) /\ outMax = F(255) /\ outputSum = F(255)
  /\ myInput = F(30) /\ lastInput = F(30)

(***************************************************************************)
(* C7: Direct, pOnError, dOnMeas, iAwCondition, Kp = 2, Ki = 5, Kd = 1,    *)
(* period 100000 us, limits [0, 255]; the controller has just been         *)
(* activated into timer mode with input 10 and output 10, the setpoint is  *)
(* 20.  The Compute call then returns true, leaves outputSum = 15,         *)
(* pTerm = 20, iTerm = 5, dTerm = 0 and writes 35 to the output cell.      *)
(***************************************************************************)
ScenarioActivated ==
  /\ action = "direct" /\ pmode = "pOnError" /\ dmode = "dOnMeas"
  /\ iawmode = "iAwCondition"
  /\ dispKp = F(2) /\ dispKi = F(5) /\ dispKd = F(1)
  /\ sampleTimeUs = 100000
  /\ outMin = F(0) /\ outMax = F(255)
  /\ op = "SetMode" /\ ret = "initialized" /\ mode = "timer"
  /\ myInput = F(10) /\ myOutput = F(10) /\ mySetpoint = F(20)

C7_Scenario ==
  [][(ScenarioActivated /\ op' = "Compute")
     => /\ ret' = "true"
        /\ outputSum' = F(15)
        /\ pTerm' = F(20) /\ iTerm' = F(5) /\ dTerm' = F(0)
        /\ myOutput' = F(35)]_vars

\* the scenario's Compute has been made
C7_Witness ==
  /\ op = "Compute" /\ ret = "true" /\ computes = 1 /\ mode = "timer"
  /\ action = "direct" /\ pmode = "pOnError" /\ dmode = "dOnMeas"
  /\ iawmode = "iAwCondition"
  /\ dispKp = F(2) /\ dispKi = F(5) /\ dispKd = F(1)
  /\ outMin = F(0) /\ outMax = F(255)
  /\ myInput = F(10) /\ mySetpoint = F(20) /\ lastInput = F(10)
  /\ outputSum = F(15) /\ pTerm = F(20) /\ iTerm = F(5) /\ dTerm = F(0)
  /\ myOutput = F(35)

(***************************************************************************)
(* The tuning calls on their own: SetTunings (both overloads) and          *)
(* SetSampleTimeUs in any order on a controller constructed with any of    *)
(* the gain and mode arguments, idle or activated.                         *)
(***************************************************************************)
InitTuning ==
  /\ Cells({F(10)}, {F(10)}, {F(20)})
  /\ \E g \in GainArgs, m \in ModeArgs :
       QuickPID(g[1], g[2], g[3], m[1], m[2], m[3], "direct", "NULL")

NextTuning ==
  \/ \E g \in GainArgs, m \in ModeArgs : SetTunings(g[1], g[2], g[3], m[1], m[2], m[3])
  \/ \E g \in GainArgs : SetTunings3(g[1], g[2], g[3])
  \/ \E t \in SampleTimeArgs : SetSampleTimeUs(t)
  \/ \E m \in {"manual", "timer"} : SetMode(m, "NULL")

SpecTuning == InitTuning /\ [][NextTuning]_vars

AnyNegative(g) == g[1].n < 0 \/ g[2].n < 0 \/ g[3].n < 0

\* the sample period in seconds
PeriodSec == Rat(sampleTimeUs, 1000000)

(***************************************************************************)
(* C8: a SetTunings call (either overload) with a negative Kp, Ki or Kd    *)
(* changes none of the raw gains, the scaled gains and the stored          *)
(* proportional, derivative and anti-windup modes, whatever modes it       *)
(* passes and however often it is repeated.                                *)
(***************************************************************************)
C8_NegativeTuningsIgnored ==
  [][\A g \in GainArgs, m \in ModeArgs :
       (/\ AnyNegative(g)
        /\ \/ SetTunings(g[1], g[2], g[3], m[1], m[2], m[3])
           \/ SetTunings3(g[1], g[2], g[3]))
       => UNCHANGED << dispKp, dispKi, dispKd, kp, ki, kd, pmode, dmode, iawmode >>]_vars

\* a rejected call has just been made on a controller that holds accepted
\* gains and modes other than the defaults a six-argument call would pass
C8_Witness ==
  /\ op = "SetTunings" /\ ret = "ignored"
  /\ dispKp = F(2) /\ kp = F(2) /\ ki = Rat(1, 2)
  /\ pmode = "pOnMeas"

(***************************************************************************)
(* C9: a SetTunings call with Kp, Ki, Kd >= 0 stores exactly these as the  *)
(* raw gains and leaves kp = Kp, ki = Ki * T and kd = Kd / T, T being the  *)
(* current sample period in seconds.                                       *)
(***************************************************************************)
C9_TuningsScaled ==
  [][\A g \in GainArgs, m \in ModeArgs :
       (/\ ~AnyNegative(g)
        /\ \/ SetTunings(g[1], g[2], g[3], m[1], m[2], m[3])
           \/ SetTunings3(g[1], g[2], g[3]))
       => /\ dispKp' = g[1] /\ dispKi' = g[2] /\ dispKd' = g[3]
          /\ kp' = g[1]
          /\ RMul(ki', F(1000000)) = RMul(g[2], F(sampleTimeUs))
          /\ RMul(kd', F(sampleTimeUs)) = RMul(g[3], F(1000000))]_vars

\* gains 2, 5, 1 have just been set at a period of 0.2 s
C9_Witness ==
  /\ op = "SetTunings" /\ ret = "void"
  /\ sampleTimeUs = 200000
  /\ dispKp = F(2) /\ dispKi = F(5) /\ dispKd = F(1)
  /\ kp = F(2) /\ ki = F(1) /\ kd = F(5)

(***************************************************************************)
(* C10: once gains have been accepted, after any sequence of SetTunings    *)
(* and SetSampleTimeUs calls kp = Kp, ki = Ki * T, kd = Kd / T for the raw *)
(* gains and the period T in seconds, and no scaled gain is negative; and  *)
(* an accepted SetSampleTimeUs from T1 to T2 multiplies ki by T2/T1 and kd *)
(* by T1/T2 and leaves the raw gains and the accumulator alone.            *)
(***************************************************************************)
GainsConsistent ==
  /\ kp = dispKp
  /\ ki = RMul(dispKi, PeriodSec)
  /\ RMul(kd, PeriodSec) = dispKd
  /\ kp.n >= 0 /\ ki.n >= 0 /\ kd.n >= 0

C10_ScaledGainsConsistent ==
  /\ [](kp # Indeterminate => GainsConsistent)
  /\ [][\A t \in SampleTimeArgs :
          (t # 0 /\ kp # Indeterminate /\ SetSampleTimeUs(t))
          => /\ RMul(ki', F(sampleTimeUs)) = RMul(ki, F(t))
             /\ RMul(kd', F(t)) = RMul(kd, F(sampleTimeUs))
             /\ UNCHANGED << dispKp, dispKi, dispKd, outputSum >>]_vars

\* the period has just been changed, to 0.05 s, on an activated controller
\* tuned 2, 5, 1
C10_Witness ==
  /\ op = "SetSampleTimeUs" /\ ret = "void"
  /\ sampleTimeUs = 50000
  /\ dispKi = F(5) /\ ki = Rat(1, 4) /\ dispKd = F(1) /\ kd = F(20)
  /\ outputSum = F(10)

(***************************************************************************)
(* C11: a SetSampleTimeUs call with a period of 0 changes none of          *)
(* sampleTimeUs, ki and kd, and sampleTimeUs is positive in every state.   *)
(***************************************************************************)
C11_ZeroSampleTimeIgnored ==
  /\ [](sampleTimeUs > 0)
  /\ [][SetSampleTimeUs(0) => UNCHANGED << sampleTimeUs, ki, kd >>]_vars

\* a period of 0 has just been refused after the period was changed to
\* 0.05 s
C11_Witness ==
  /\ op = "SetSampleTimeUs" /\ ret = "ignored"
  /\ sampleTimeUs = 50000 /\ dispKi = F(5) /\ ki = Rat(1, 4) /\ kd = F(20)

(***************************************************************************)
(* The output range: one controller is given accepted and rejected output  *)
(* limits, tunings and sample periods, its anti-windup mode is switched,   *)
(* and it is activated, computed and idled, in any order.                  *)
(***************************************************************************)
InitRange ==
  /\ Cells({F(10)}, {F(10)}, {F(20)})
  /\ QuickPID(F(2), F(5), F(1), "pOnError", "dOnMeas", "iAwCondition", "direct", "NULL")

NextRange ==
  \/ computes < MaxRangeComputes /\ Compute
  \/ \E m \in Control : SetMode(m, "NULL")
  \/ \E l \in LimitArgs : SetOutputLimits(l[1], l[2])
  \/ \E aw \in iAwMode : SetAntiWindupMode(aw)
  \/ \E t \in RangeTunings : SetTunings(t[1], t[2], t[3], t[4], t[5], t[6])
  \/ \E t \in LifeSampleTimes : SetSampleTimeUs(t)

SpecRange == InitRange /\ [][NextRange]_vars

(***************************************************************************)
(* C12: a SetOutputLimits call with Min >= Max, made in any mode, changes  *)
(* none of outMin, outMax, the output cell and outputSum.                  *)
(***************************************************************************)
C12_BadLimitsIgnored ==
  [][\A l \in LimitArgs :
       ((l[1] = l[2] \/ RLt(l[2], l[1])) /\ SetOutputLimits(l[1], l[2]))
       => UNCHANGED << outMin, outMax, myOutput, outputSum >>]_vars

\* limits refused by an active controller whose output cell (20) and
\* accumulator (15) lie outside both refused ranges
C12_Witness ==
  /\ op = "SetOutputLimits" /\ ret = "ignored" /\ mode = "timer"
  /\ outMin = F(0) /\ outMax = F(20)
  /\ myOutput = F(20) /\ outputSum = F(15)

(***************************************************************************)
(* C13: outMin < outMax in every state, whatever SetOutputLimits, SetMode, *)
(* SetTunings, SetSampleTimeUs and Compute calls were made; the            *)
(* constructor leaves the range [0, 255].                                  *)
(***************************************************************************)
C13_LimitsOrdered ==
  /\ RLt(outMin, outMax)
  /\ op = "QuickPID" => (outMin = F(0) /\ outMax = F(255))

\* after a Compute the range was changed to [-20, -10] and a further
\* range was refused
C13_Witness ==
  /\ op = "SetOutputLimits" /\ ret = "ignored" /\ computes = 1
  /\ outMin = F(-20) /\ outMax = F(-10)

(***************************************************************************)
(* C14: in every state where the mode is not manual and the anti-windup    *)
(* mode is iAwCondition or iAwClamp, outMin <= outputSum <= outMax.        *)
(***************************************************************************)
C14_AccumulatorWithinLimits ==
  (mode # "manual" /\ iawmode # "iAwOff")
  => (RLe(outMin, outputSum) /\ RLe(outputSum, outMax))

(***************************************************************************)
(* C15: after a Compute in iAwCondition mode in which iTermOut exceeded    *)
(* outMax with dError > 0, or fell below outMin with dError < 0, and ki    *)
(* was not 0, -outMax <= iTerm <= outMax, for every output range.          *)
(***************************************************************************)
C15_ITermBounded ==
  (op = "Compute" /\ ret = "true" /\ awApplied)
  => (RLe(RNeg(outMax), iTerm) /\ RLe(iTerm, outMax))

(***************************************************************************)
(* C15 as amended: the same bound whenever outMax >= 0.                    *)
(***************************************************************************)
C15_ITermBoundedNonNegativeMax ==
  (op = "Compute" /\ ret = "true" /\ awApplied /\ RLe(F(0), outMax))
  => (RLe(RNeg(outMax), iTerm) /\ RLe(iTerm, outMax))

\* in the range [0, 20] the hypothetical output 27.5 exceeded outMax with a
\* growing error and the integral term was saturated at 20
C15_Witness ==
  /\ op = "Compute" /\ ret = "true" /\ awApplied
  /\ outMin = F(0) /\ outMax = F(20)
  /\ error = F(10) /\ pTerm = F(20) /\ ki = Rat(1, 2) /\ iTerm = F(20)

(***************************************************************************)
(* C16: a SetMode call that is not a transition from manual to automatic   *)
(* or timer sets the mode and leaves outputSum, lastInput, lastError, the  *)
(* output cell, the raw and scaled gains and the limits unchanged.         *)
(***************************************************************************)
C16_SetModeFrame ==
  [][\A m \in Control, g \in ClockArg :
       (SetMode(m, g) /\ ~(mode = "manual" /\ m # "manual"))
       => /\ mode' = m
          /\ UNCHANGED << outputSum, lastInput, lastError, myOutput,
                          dispKp, dispKi, dispKd, kp, ki, kd, outMin, outMax >>]_vars

\* switched from timer to automatic after a Compute, with an input cell
\* that has changed since and an output cell that differs from outputSum
C16_Witness ==
  /\ op = "SetMode" /\ ret = "void" /\ mode = "automatic" /\ computes = 1
  /\ lastInput = F(10) /\ myInput = F(30)
  /\ outputSum = F(10) /\ myOutput = F(30)

(***************************************************************************)
(* C17: a Compute call that returns false leaves the output cell,          *)
(* outputSum, pTerm, iTerm, dTerm, error, lastError, lastInput and         *)
(* lastTime unchanged.                                                     *)
(***************************************************************************)
C17_RejectedComputeFrame ==
  [][(op' = "Compute" /\ ret' = "false")
     => UNCHANGED << myOutput, outputSum, pTerm, iTerm, dTerm, error,
                     lastError, lastInput, lastTime >>]_vars

\* Compute has returned false in automatic mode after an earlier Compute,
\* with input and setpoint cells that would give another error and output
C17_Witness ==
  /\ op = "Compute" /\ ret = "false" /\ mode = "automatic" /\ computes = 1
  /\ myInput = F(30) /\ lastInput = F(10) /\ error = F(10)
  /\ myOutput = F(30)

\* the hypothetical output of the Compute just made: pTerm holds
\* peTerm - pmTerm, error the error, ki the integral gain
HypotheticalOutput == RAdd(pTerm, RMul(ki, RAdd(RMul(ki, error), error)))

\* x raised to at least lo, then lowered to at most hi
RaisedThenLowered(x, lo, hi) ==
  LET r == IF RLt(x, lo) THEN lo ELSE x
  IN  IF RLt(hi, r) THEN hi ELSE r

\* a Compute has just been made in iAwCondition mode with assigned gains
ConditionalComputed ==
  /\ op = "Compute" /\ ret = "true" /\ iawmode = "iAwCondition"
  /\ ki # Indeterminate

(***************************************************************************)
(* C18: after a Compute in iAwCondition mode iTerm is ki * error when the  *)
(* anti-windup condition did not trigger, and ki * error saturated into    *)
(* [-outMax, outMax] when it did.                                          *)
(***************************************************************************)
C18_ITermSaturated ==
  ConditionalComputed
  => iTerm = IF awApplied
             THEN RaisedThenLowered(RMul(ki, error), RNeg(outMax), outMax)
             ELSE RMul(ki, error)

(***************************************************************************)
(* C18 as amended: when the condition triggered, iTerm is iTermOut =       *)
(* (peTerm - pmTerm) + ki * (ki * error + error) raised to at least        *)
(* -outMax and then lowered to at most outMax; it triggers only with ki    *)
(* not 0 and iTermOut above outMax or below outMin; otherwise iTerm is     *)
(* ki * error.                                                             *)
(***************************************************************************)
C18_ITermIsSaturatedHypotheticalOutput ==
  ConditionalComputed
  => /\ iTerm = IF awApplied
                THEN RaisedThenLowered(HypotheticalOutput, RNeg(outMax), outMax)
                ELSE RMul(ki, error)
     /\ awApplied => /\ ki.n # 0
                     /\ RLt(outMax, HypotheticalOutput) \/ RLt(HypotheticalOutput, outMin)

\* in the range [0, 20] the condition triggered: iTerm is the hypothetical
\* output 27.5 saturated at 20, not ki * error = 5
C18_Witness ==
  /\ ConditionalComputed /\ awApplied
  /\ outMin = F(0) /\ outMax = F(20)
  /\ ki = Rat(1, 2) /\ error = F(10) /\ HypotheticalOutput = Rat(55, 2)
  /\ iTerm = F(20) /\ outputSum = F(20)

(***************************************************************************)
(* C19: a Compute call that returns true sets lastError to the error and   *)
(* lastInput to the input, and in timer mode it leaves lastTime unchanged. *)
(***************************************************************************)
C19_TimerKeepsLastTime ==
  [][(op' = "Compute" /\ ret' = "true")
     => /\ lastError' = error'
        /\ lastInput' = myInput
        /\ mode = "timer" => lastTime' = lastTime]_vars

\* x saturated into [lo, hi], lo < hi
Saturated(x, lo, hi) == IF RLt(x, lo) THEN lo ELSE IF RLt(hi, x) THEN hi ELSE x

(***************************************************************************)
(* C20: a SetOutputLimits call with Min < Max stores the range; when the   *)
(* mode is not manual it leaves the output cell and outputSum equal to     *)
(* their previous values saturated into [Min, Max], hence within the       *)
(* range; in manual mode it leaves both unchanged.                         *)
(***************************************************************************)
C20_AcceptedLimitsReclamp ==
  [][\A l \in LimitArgs :
       (RLt(l[1], l[2]) /\ SetOutputLimits(l[1], l[2]))
       => /\ outMin' = l[1] /\ outMax' = l[2]
          /\ IF mode # "manual"
             THEN /\ myOutput' = Saturated(myOutput, l[1], l[2])
                  /\ outputSum' = Saturated(outputSum, l[1], l[2])
                  /\ RLe(l[1], myOutput') /\ RLe(myOutput', l[2])
                  /\ RLe(l[1], outputSum') /\ RLe(outputSum', l[2])
             ELSE UNCHANGED << myOutput, outputSum >>]_vars

\* an active controller with output 35 and accumulator 15 was given the
\* range [-20, -10]: both are now -10
C20_Witness ==
  /\ op = "SetOutputLimits" /\ ret = "void" /\ mode = "timer" /\ computes = 1
  /\ outMin = F(-20) /\ outMax = F(-10)
  /\ myOutput = F(-10) /\ outputSum = F(-10)
  /\ pTerm = F(20) /\ iTerm = F(5)

(***************************************************************************)
(* Re-activation: a controller with a derivative gain is activated,        *)
(* computed, idled and activated again while the caller changes the input. *)
(***************************************************************************)
InitResume ==
  /\ Cells({F(10)}, {F(10)}, {F(20)})
  /\ \E m \in LifeModes :
       QuickPID(F(2), F(5), F(1), m[1], m[2], m[3], "direct", "NULL")

NextResume ==
  \/ Compute
  \/ \E m \in Control : SetMode(m, "NULL")
  \/ \E v \in InputVals : WriteInput(v)

SpecResume == InitResume /\ [][NextResume]_vars

(***************************************************************************)
(* C21: a SetMode call that activates the controller leaves lastError (and *)
(* error, the three terms and the output cell) unchanged; the first        *)
(* Compute after an activation that follows an earlier Compute takes       *)
(* dError against the lastError that Compute left: in dOnError mode        *)
(* dTerm = kd * (error - lastError).                                       *)
(***************************************************************************)
C21_LastErrorRetained ==
  /\ [][(mode = "manual" /\ op' = "SetMode" /\ mode' # "manual")
        => UNCHANGED << lastError, error, pTerm, iTerm, dTerm, myOutput >>]_vars
  /\ [][(/\ op = "SetMode" /\ ret = "initialized" /\ lastError # Indeterminate
         /\ dmode = "dOnError"
         /\ op' = "Compute" /\ ret' = "true")
        => dTerm' = RMul(kd, RSub(error', lastError))]_vars

\* the second Compute, made after the controller was idled, the input
\* changed from 10 to 30 and the controller activated again: the
\* proportional term shows lastInput was re-initialized (dInput = 0), the
\* derivative term shows dError = -10 - 10 against the retained error
C21_Witness ==
  /\ op = "Compute" /\ ret = "true" /\ computes = 2
  /\ pmode = "pOnErrorMeas" /\ dmode = "dOnError"
  /\ kd = F(10) /\ error = F(-10) /\ lastInput = F(30)
  /\ pTerm = F(-10) /\ dTerm = F(-200)

====
